---- MODULE Spec2Model ----
(***************************************************************************)
(* calibre-kavita-mirror: the synchronization engine of src/lib.test.ts    *)
(* (lines 265-534, the library) and the watch loop of src/unnamed/part_000.*)
(* Strings are sequences of one-character strings, so that sanitization,   *)
(* padding, joining and splitting are computed as the code computes them.  *)
(***************************************************************************)
EXTENDS Integers, Sequences, FiniteSets, TLC

(* ------------------------------ bounds -------------------------------- *)
\* number of book folders of the source tree
NBooks == 2
\* inodes available to the file system
MaxIno == 3
\* source-tree modifications of one behaviour
MaxChanges == 1
\* injected failures of readdir / mkdir / unlink / link of one behaviour
MaxFaults == 1
\* syncFiles calls of one sequential behaviour
MaxSeqPasses == 2
\* change notifications of one behaviour of the watching program
MaxEvents == 2

Books == 1..NBooks
Inodes == 1..MaxIno

(* ------------------------------ strings ------------------------------- *)
Digits == {"0", "1", "2", "3", "4", "5", "6", "7", "8", "9"}
Lower == {"a", "b", "c", "d", "e", "f", "g", "h", "i", "j", "k", "l", "m",
          "n", "o", "p", "q", "r", "s", "t", "u", "v", "w", "x", "y", "z"}
Upper == {"A", "B", "C", "D", "E", "F", "G", "H", "I", "J", "K", "L", "M",
          "N", "O", "P", "Q", "R", "S", "T", "U", "V", "W", "X", "Y", "Z"}
\* the class \s of the regular expressions (the members the model uses)
Whitespace == {" ", "\t", "\n"}
\* the class [a-zA-Z0-9 ]
KeptChars == Lower \cup Upper \cup Digits \cup {" "}

\* an optional value: <<>> is undefined, <<v>> is v
None == <<>>
Some(v) == <<v>>

RECURSIVE CollapseWhitespace(_)
\* s.replace(/\s+/g, " ")
CollapseWhitespace(s) ==
  IF s = <<>> THEN <<>>
  ELSE IF Head(s) \in Whitespace
       THEN IF Len(s) > 1 /\ s[2] \in Whitespace
            THEN CollapseWhitespace(Tail(s))
            ELSE <<" ">> \o CollapseWhitespace(Tail(s))
       ELSE <<Head(s)>> \o CollapseWhitespace(Tail(s))

IsKept(c) == c \in KeptChars

\* s.replace(/[^a-zA-Z0-9 ]/g, "")
StripSpecial(s) == SelectSeq(s, IsKept)

\* .replace(/\s+/g, " ").replace(/[^a-zA-Z0-9 ]/g, "")
Sanitize(s) == StripSpecial(CollapseWhitespace(s))

DigitChar(d) ==
  CASE d = 0 -> "0" [] d = 1 -> "1" [] d = 2 -> "2" [] d = 3 -> "3"
    [] d = 4 -> "4" [] d = 5 -> "5" [] d = 6 -> "6" [] d = 7 -> "7"
    [] d = 8 -> "8" [] d = 9 -> "9"

DigitValue(c) ==
  CASE c = "0" -> 0 [] c = "1" -> 1 [] c = "2" -> 2 [] c = "3" -> 3
    [] c = "4" -> 4 [] c = "5" -> 5 [] c = "6" -> 6 [] c = "7" -> 7
    [] c = "8" -> 8 [] c = "9" -> 9

RECURSIVE NatToString(_)
NatToString(n) ==
  IF n < 10 THEN <<DigitChar(n)>>
  ELSE NatToString(n \div 10) \o <<DigitChar(n % 10)>>

\* A number is [nan, neg, whole, frac]: NaN, or (-)whole.frac with frac the
\* decimal digits after the point (<<>> for an integer).
NaN == [nan |-> TRUE, neg |-> FALSE, whole |-> 0, frac |-> <<>>]
Num(w, f) == [nan |-> FALSE, neg |-> FALSE, whole |-> w, frac |-> f]

\* Number.prototype.toString()
NumberToString(n) ==
  IF n.nan THEN <<"N", "a", "N">>
  ELSE (IF n.neg THEN <<"-">> ELSE <<>>)
       \o NatToString(n.whole)
       \o (IF n.frac = <<>> THEN <<>> ELSE <<".">> \o n.frac)

\* padding at the end instead of the start
PadEnd(s, width) ==
  IF Len(s) >= width THEN s
  ELSE s \o [i \in 1..(width - Len(s)) |-> "0"]

\* s.padStart(width, "0")
PadStart(s, width) ==
  IF Len(s) >= width THEN s
  ELSE [i \in 1..(width - Len(s)) |-> "0"] \o s

\* s.endsWith(suffix)
EndsWith(s, suffix) ==
  /\ Len(s) >= Len(suffix)
  /\ SubSeq(s, Len(s) - Len(suffix) + 1, Len(s)) = suffix

\* s.startsWith(prefix)
StartsWith(s, prefix) ==
  /\ Len(s) >= Len(prefix)
  /\ SubSeq(s, 1, Len(prefix)) = prefix

RECURSIVE SplitSlash(_)
\* s.split("/")
SplitSlash(s) ==
  IF \A i \in 1..Len(s) : s[i] # "/" THEN <<s>>
  ELSE LET k == CHOOSE i \in 1..Len(s) :
                  s[i] = "/" /\ \A j \in 1..(i - 1) : s[j] # "/"
       IN <<SubSeq(s, 1, k - 1)>> \o SplitSlash(SubSeq(s, k + 1, Len(s)))

CountSlashes(s) == Cardinality({i \in 1..Len(s) : s[i] = "/"})

DotEpub == <<".", "e", "p", "u", "b">>
DotOpf == <<".", "o", "p", "f">>
MetadataOpf == <<"m", "e", "t", "a", "d", "a", "t", "a">> \o DotOpf
Dash == <<" ", "-", " ">>
UnknownTitle == <<"U", "n", "k", "n", "o", "w", "n", " ", "T", "i", "t", "l", "e">>
UnknownCreator ==
  <<"U", "n", "k", "n", "o", "w", "n", " ", "C", "r", "e", "a", "t", "o", "r">>
SeriesName == <<"c", "a", "l", "i", "b", "r", "e", ":", "s", "e", "r", "i", "e", "s">>
SeriesIndexName == SeriesName \o <<"_", "i", "n", "d", "e", "x">>

\* the target root, TARGET_DIR of the test environment
outDir == <<".", "/", "t">>

(* ------------------------- Metadata Parser ---------------------------- *)
RECURSIVE DigitPrefix(_)
\* the longest prefix of decimal digits
DigitPrefix(s) ==
  IF s # <<>> /\ Head(s) \in Digits
  THEN <<Head(s)>> \o DigitPrefix(Tail(s))
  ELSE <<>>

RECURSIVE DigitsToNat(_)
DigitsToNat(s) ==
  IF s = <<>> THEN 0
  ELSE 10 * DigitsToNat(SubSeq(s, 1, Len(s) - 1)) + DigitValue(s[Len(s)])

RECURSIVE DropTrailingZeros(_)
DropTrailingZeros(s) ==
  IF s # <<>> /\ s[Len(s)] = "0"
  THEN DropTrailingZeros(SubSeq(s, 1, Len(s) - 1))
  ELSE s

RECURSIVE DropLeadingWhitespace(_)
DropLeadingWhitespace(s) ==
  IF s # <<>> /\ Head(s) \in Whitespace
  THEN DropLeadingWhitespace(Tail(s))
  ELSE s

\* parseFloat(s): leading whitespace, a sign, digits, a point and digits; what
\* follows is ignored; NaN when no digit is found.
parseFloat(s) ==
  LET t == DropLeadingWhitespace(s)
      signed == t # <<>> /\ Head(t) \in {"-", "+"}
      u == IF signed THEN Tail(t) ELSE t
      w == DigitPrefix(u)
      r == SubSeq(u, Len(w) + 1, Len(u))
      f == IF r # <<>> /\ Head(r) = "." THEN DigitPrefix(Tail(r)) ELSE <<>>
      whole == DigitsToNat(w)
      frac == DropTrailingZeros(f)
  IN IF w = <<>> /\ f = <<>> THEN NaN
     ELSE [nan |-> FALSE,
           neg |-> signed /\ Head(t) = "-" /\ (whole # 0 \/ frac # <<>>),
           whole |-> whole, frac |-> frac]

\* A sidecar document after xmlParser.parse and opfSchema.safeParse:
\* [valid, identifiers: Seq([text, scheme]), title, creator,
\*  meta: Seq([name, content])]; valid is the schema's verdict.
Identifier(text, scheme) == [text |-> text, scheme |-> scheme]
MetaTag(name, content) == [name |-> name, content |-> content]

\* array.find(pred): the first element satisfying pred, as an optional;
\* hit[i] is pred's verdict on seq[i]
FindFirst(seq, hit) ==
  IF \E i \in 1..Len(seq) : hit[i]
  THEN Some(seq[CHOOSE i \in 1..Len(seq) :
                  hit[i] /\ \A j \in 1..(i - 1) : ~hit[j]])
  ELSE None

\* parseOpf: [ok |-> FALSE] when it throws "Invalid OPF format"
parseOpf(doc) ==
  IF ~doc.valid THEN [ok |-> FALSE]
  ELSE
    LET IsUuid(i) == i.scheme = Some(<<"u", "u", "i", "d">>)
        IsCalibre(i) == i.scheme = Some(<<"c", "a", "l", "i", "b", "r", "e">>)
        ids == doc.identifiers
        byUuid == FindFirst(ids, [i \in 1..Len(ids) |-> IsUuid(ids[i])])
        byCalibre == FindFirst(ids, [i \in 1..Len(ids) |-> IsCalibre(ids[i])])
        identifiers ==
          IF byUuid # None THEN byUuid
          ELSE IF byCalibre # None THEN byCalibre
          ELSE IF ids # <<>> THEN Some(ids[1]) ELSE None
        IsSeries(m) == m.name = SeriesName
        IsSeriesIndex(m) == m.name = SeriesIndexName
        meta == doc.meta
        series == FindFirst(meta, [i \in 1..Len(meta) |-> IsSeries(meta[i])])
        seriesIndex ==
          FindFirst(meta, [i \in 1..Len(meta) |-> IsSeriesIndex(meta[i])])
    IN [ok |-> TRUE,
        id |-> IF identifiers # None THEN Some(identifiers[1].text) ELSE None,
        title |-> doc.title,
        creator |-> doc.creator,
        series |-> IF series # None THEN Some(series[1].content) ELSE None,
        seriesIndex |-> IF seriesIndex # None
                        THEN Some(parseFloat(seriesIndex[1].content))
                        ELSE None]

(* ---------------------------- Path Policy ----------------------------- *)
\* x || fallback for an optional string x: undefined and "" are falsy
OrElse(opt, fallback) ==
  IF opt = None \/ opt[1] = <<>> THEN fallback ELSE opt[1]

\* metadata.title?.replace(..).replace(..)
SanitizeOpt(opt) == IF opt = None THEN None ELSE Some(Sanitize(opt[1]))

\* calculateTargetPath: <<directory, file>>
calculateTargetPath(metadata) ==
  IF \/ metadata.series = None
     \/ metadata.series = Some(<<>>)
     \/ metadata.seriesIndex = None
  THEN LET effectiveTitle == OrElse(SanitizeOpt(metadata.title), UnknownTitle)
           effectiveCreator ==
             OrElse(SanitizeOpt(metadata.creator), UnknownCreator)
           fileName == effectiveTitle \o Dash \o effectiveCreator
       IN <<fileName, fileName \o DotEpub>>
  ELSE LET seriesName == Sanitize(metadata.series[1])
           seriesIndex ==
             PadStart(NumberToString(metadata.seriesIndex[1]), 2)
           fileName == seriesName \o Dash \o seriesIndex
       IN <<seriesName, fileName \o DotEpub>>

\* `${directory}/${fileName}`
RelPath(directory, fileName) == directory \o <<"/">> \o fileName

\* `${outDir}/${directory}/${fileName}`
AbsPath(directory, fileName) ==
  outDir \o <<"/">> \o directory \o <<"/">> \o fileName

(* --------------------------- sidecar documents ------------------------ *)
DocNames == {"d1", "d2", "d3", "d4", "d5", "bad"}

\* the parsed form of each sidecar document the source tree may hold
Doc(name) ==
  LET uuid == Identifier(<<"1">>, Some(<<"u", "u", "i", "d">>))
      base == [valid |-> TRUE, identifiers |-> <<uuid>>,
               title |-> Some(<<"a">>), creator |-> Some(<<"b">>),
               meta |-> <<>>]
      series(n) == MetaTag(SeriesName, n)
      index(n) == MetaTag(SeriesIndexName, n)
  IN CASE name = "d1" -> base
       [] name = "d2" ->
            [base EXCEPT !.title = Some(<<"c">>),
                         !.meta = <<series(<<"s">>), index(<<"1">>)>>]
       [] name = "d3" ->
            [base EXCEPT !.title = None,
                         !.meta = <<series(<<"s">>), index(<<"1">>)>>]
       [] name = "d4" ->
            [base EXCEPT !.meta = <<series(<<"!">>), index(<<"1">>)>>]
       [] name = "d5" ->
            [base EXCEPT !.title = Some(<<>>),
                         !.meta = <<series(<<"s">>), index(<<"2">>)>>]
       [] OTHER -> [base EXCEPT !.valid = FALSE]

(* ------------------------------- state -------------------------------- *)
VARIABLES
  src,      \* source tree: book folder -> [dir, epub (inode, 0: none), opf]
  tdirs,    \* target tree: names of the subdirectories of the target root
  tfiles,   \* target tree: files [dir, name, ino]; dir <<>> is the target root
  pass,     \* the invocations of main/syncFiles, by slot
  phase,    \* position of the program: "tests", "unit", "initial", "watching",
            \* "exited"
  events,   \* change notifications the watcher has not delivered yet
  nevents,  \* notifications raised so far
  changes,  \* source-tree modifications so far
  faults,   \* injected failures so far
  runs,     \* passes started so far
  stable,   \* a pass completed that began after the last source modification
  lastOk,   \* the pass completed last met IdempotencePremise and had no failure
  call      \* the last direct call of a library function by a unit test

vars == <<src, tdirs, tfiles, pass, phase, events, nevents, changes, faults,
          runs, stable, lastOk, call>>

Slots == 1..(MaxEvents + 1)

(* ---------------------------- file system ----------------------------- *)
StrayIno == MaxIno

File(dir, name, ino) == [dir |-> dir, name |-> name, ino |-> ino]

\* st_nlink: the directory entries that name the inode
NLinkIn(s, t, ino) ==
  Cardinality({b \in Books : s[b].epub = ino})
  + Cardinality({f \in t : f.ino = ino})

NLink(ino) == NLinkIn(src, tfiles, ino)

\* the file at outDir/dir/name, as a set of at most one element
Lookup(t, dir, name) == {f \in t : f.dir = dir /\ f.name = name}

RECURSIVE SeqOf(_)
\* a directory listing: the members in the order readdir yields them
SeqOf(S) ==
  IF S = {} THEN <<>>
  ELSE LET x == CHOOSE x \in S : TRUE IN <<x>> \o SeqOf(S \ {x})

Contains(seq, x) == \E i \in 1..Len(seq) : seq[i] = x

Without(seq, x) == SelectSeq(seq, LAMBDA y : y # x)

EpubFileName == <<"x">> \o DotEpub

\* readdir(bookPath, {withFileTypes: true})
BookFiles(b) ==
  (IF src[b].epub # 0 THEN <<[name |-> EpubFileName, isFile |-> TRUE]>>
   ELSE <<>>)
  \o (IF src[b].opf # "none" THEN <<[name |-> MetadataOpf, isFile |-> TRUE]>>
      ELSE <<>>)

(* ------------------------------ a pass -------------------------------- *)
\* One invocation of main. The fields after j are history: t0 the target
\* files when the pass began, prem IdempotencePremise at that time, second
\* whether an undisturbed pass had completed since the last source change,
\* prevOk that pass's verdict, failed whether an operation of this pass
\* failed, dirty whether the source changed since the pass began, created/removed
\* the links made and files deleted, linkLog/pruneLog the Linker calls and the
\* removal attempts, pruneErr the removals that failed, lastRet the last
\* Linker result, scanned what getFilesInTargetDir returned, rets the Linker
\* results in call order, made the relative paths link() created.
IdlePass ==
  [pc |-> "idle", todo |-> <<>>, sourceFiles |-> <<>>, dtodo |-> <<>>,
   targetFiles |-> <<>>, i |-> 1, j |-> 1,
   t0 |-> {}, prem |-> FALSE, second |-> FALSE, prevOk |-> FALSE,
   failed |-> FALSE, dirty |-> FALSE, scanFailed |-> FALSE,
   created |-> 0, removed |-> 0, linkLog |-> <<>>, pruneLog |-> <<>>,
   pruneErr |-> <<>>, lastRet |-> None,
   scanned |-> <<>>, rets |-> <<>>, made |-> {}]

InFlight(r) == r.pc \notin {"idle", "done"}

\* every target file with two or more links is a link of a source e-book
IdempotencePremise ==
  \A f \in tfiles :
    NLink(f.ino) >= 2 => \E b \in Books : src[b].epub = f.ino

\* Advance without the try/catch of the loops: a failure ends the pass
AdvanceAbortOnFailure(r) ==
  [r EXCEPT !.pc = IF r.failed THEN "done"
                   ELSE IF r.i <= Len(r.sourceFiles) THEN "linkFile"
                   ELSE IF r.j <= Len(r.targetFiles) THEN "prune"
                   ELSE "done"]

\* Advance with the loops in the other order: prune first, then link
AdvancePruneFirst(r) ==
  [r EXCEPT !.pc = IF r.j <= Len(r.targetFiles) THEN "prune"
                   ELSE IF r.i <= Len(r.sourceFiles) THEN "linkFile"
                   ELSE "done"]

\* the loop heads of syncFiles: the link loop, then the prune loop, then the end
Advance(r) ==
  [r EXCEPT !.pc = IF r.i <= Len(r.sourceFiles) THEN "linkFile"
                   ELSE IF r.j <= Len(r.targetFiles) THEN "prune"
                   ELSE "done"]

\* the record of slot p becomes r; a pass that ends updates stable and lastOk
Commit(p, r) ==
  /\ pass' = [pass EXCEPT ![p] = r]
  /\ IF r.pc = "done"
     THEN /\ stable' = ~r.dirty
          /\ lastOk' = (r.prem /\ ~r.failed /\ ~r.dirty)
     ELSE UNCHANGED <<stable, lastOk>>

FaultChoices == IF faults < MaxFaults THEN {FALSE, TRUE} ELSE {FALSE}

Inject(f) == faults' = faults + (IF f THEN 1 ELSE 0)

Running == phase # "exited"

\* main() is called: syncFiles begins with readSourceFiles
BeginPass(p) ==
  [IdlePass EXCEPT !.pc = "readSource", !.t0 = tfiles,
                   !.prem = IdempotencePremise,
                   !.second = stable /\ \A q \in Slots : ~InFlight(pass[q]),
                   !.prevOk = lastOk]

(* --------------------------- Source Scanner --------------------------- *)
RECURSIVE Ascending(_)
Ascending(S) ==
  IF S = {} THEN <<>>
  ELSE LET m == CHOOSE x \in S : \A y \in S : x <= y
       IN <<m>> \o Ascending(S \ {m})

\* readSourceFiles: readdir(inDir), the author folders
ReadSourceRoot(p) ==
  LET r == pass[p]
      todo == Ascending({b \in Books : src[b].dir})
  IN /\ Running /\ r.pc = "readSource"
     /\ Commit(p, [r EXCEPT !.todo = todo,
                            !.pc = IF todo = <<>> THEN "readTarget"
                                   ELSE "scanBook"])
     /\ UNCHANGED <<call, src, tdirs, tfiles, phase, events, nevents, changes,
                    faults, runs>>

\* ScanEntry that does not ask for an e-book file
ScanEntryOpfOnly(b) ==
  LET bookFiles == BookFiles(b)
      IsOpf(file) == file.isFile /\ file.name = MetadataOpf
      opfFile ==
        FindFirst(bookFiles, [i \in 1..Len(bookFiles) |-> IsOpf(bookFiles[i])])
  IN IF opfFile = None THEN None
     ELSE LET metadata == parseOpf(Doc(src[b].opf))
          IN IF ~metadata.ok THEN None
             ELSE Some([source |-> b, metadata |-> metadata])

\* the entry of one book folder: None when the folder does not qualify or
\* its sidecar does not parse
ScanEntry(b) ==
  LET bookFiles == BookFiles(b)
      IsEpub(file) == file.isFile /\ EndsWith(file.name, DotEpub)
      IsOpf(file) == file.isFile /\ file.name = MetadataOpf
      epubFile ==
        FindFirst(bookFiles, [i \in 1..Len(bookFiles) |-> IsEpub(bookFiles[i])])
      opfFile ==
        FindFirst(bookFiles, [i \in 1..Len(bookFiles) |-> IsOpf(bookFiles[i])])
  IN IF epubFile = None \/ opfFile = None THEN None
     ELSE LET metadata == parseOpf(Doc(src[b].opf))
          IN IF ~metadata.ok THEN None
             ELSE Some([source |-> b, metadata |-> metadata])

\* ScanBook leaving out a folder that is gone and going on with the pass
ScanBookSkipMissing(p) ==
  LET r == pass[p]
      b == Head(r.todo)
      rest == Tail(r.todo)
  IN /\ Running /\ r.pc = "scanBook"
     /\ Commit(p, [r EXCEPT !.todo = rest,
                            !.sourceFiles =
                              @ \o (IF src[b].dir THEN ScanEntry(b) ELSE <<>>),
                            !.pc = IF rest = <<>> THEN "readTarget"
                                   ELSE "scanBook"])
     /\ UNCHANGED <<call, src, tdirs, tfiles, phase, events, nevents, changes,
                    faults, runs>>

\* readSourceFiles: one folder of the listing is read; a folder that is gone
\* makes readdir throw, which ends the pass in main's catch
ScanBook(p) ==
  LET r == pass[p]
      b == Head(r.todo)
      rest == Tail(r.todo)
  IN /\ Running /\ r.pc = "scanBook"
     /\ IF ~src[b].dir
        THEN Commit(p, [r EXCEPT !.pc = "done", !.todo = <<>>,
                                 !.scanFailed = TRUE, !.failed = TRUE])
        ELSE Commit(p, [r EXCEPT !.todo = rest,
                                 !.sourceFiles = @ \o ScanEntry(b),
                                 !.pc = IF rest = <<>> THEN "readTarget"
                                        ELSE "scanBook"])
     /\ UNCHANGED <<call, src, tdirs, tfiles, phase, events, nevents, changes,
                    faults, runs>>

(* --------------------------- Target Scanner --------------------------- *)
\* getFilesInTargetDir: readdir(outDir), the subdirectories
ReadTargetRoot(p) ==
  LET r == pass[p]
      dtodo == SeqOf(tdirs)
  IN /\ Running /\ r.pc = "readTarget"
     /\ Commit(p, IF dtodo = <<>> THEN Advance(r)
                  ELSE [r EXCEPT !.dtodo = dtodo, !.pc = "scanDir"])
     /\ UNCHANGED <<call, src, tdirs, tfiles, phase, events, nevents, changes,
                    faults, runs>>

\* readdir(seriesPath, {withFileTypes: true}): the files of d and the
\* directories inside d, which are the first components of the directories
\* of the files that lie deeper
TargetEntries(d) ==
  {[name |-> f.name, isFile |-> TRUE] : f \in {g \in tfiles : g.dir = d}}
  \cup {[name |-> SubSeq(f.dir, Len(d) + 2, Len(f.dir)), isFile |-> FALSE] :
          f \in {g \in tfiles :
                   /\ Len(g.dir) > Len(d) + 1
                   /\ SubSeq(g.dir, 1, Len(d) + 1) = d \o <<"/">>}}

\* EpubsIn testing for the sidecar extension instead of .epub
EpubsInWrongExtension(d) ==
  LET names == {f.name : f \in {g \in tfiles : g.dir = d}}
      epubs == {n \in names : EndsWith(n, DotOpf)}
  IN [k \in 1..Len(SeqOf(epubs)) |-> RelPath(d, SeqOf(epubs)[k])]

\* EpubsIn without the isFile() test
EpubsInAnyEntry(d) ==
  LET names == {e.name : e \in TargetEntries(d)}
      epubs == {n \in names : EndsWith(n, DotEpub)}
  IN [k \in 1..Len(SeqOf(epubs)) |-> RelPath(d, SeqOf(epubs)[k])]

\* the relative paths getFilesInTargetDir adds for subdirectory d
EpubsIn(d) ==
  LET names == {e.name : e \in {x \in TargetEntries(d) : x.isFile}}
      epubs == {n \in names : EndsWith(n, DotEpub)}
  IN [k \in 1..Len(SeqOf(epubs)) |-> RelPath(d, SeqOf(epubs)[k])]

\* getFilesInTargetDir: one subdirectory is listed; a readdir that throws
\* ends the pass in main's catch
ScanDir(p) ==
  LET r == pass[p]
      d == Head(r.dtodo)
      rest == Tail(r.dtodo)
      r1 == [r EXCEPT !.dtodo = rest, !.targetFiles = @ \o EpubsIn(d),
                      !.scanned = @ \o EpubsIn(d)]
  IN /\ Running /\ r.pc = "scanDir"
     /\ \E f \in FaultChoices :
          /\ Inject(f)
          /\ Commit(p, IF f
                       THEN [r EXCEPT !.pc = "done", !.dtodo = <<>>,
                                      !.scanFailed = TRUE, !.failed = TRUE]
                       ELSE IF rest = <<>> THEN Advance(r1) ELSE r1)
     /\ UNCHANGED <<call, src, tdirs, tfiles, phase, events, nevents, changes,
                    runs>>

(* ---------------------------- Safe Remover ---------------------------- *)
\* the guard with the count off by one: fewer than one "/"
SafeUnlinkRefusesOffByOne(filePath) ==
  \/ CountSlashes(filePath) < 1
  \/ StartsWith(filePath, <<"/", "/">>)

\* safeUnlink's guard: the path is refused
SafeUnlinkRefuses(filePath) ==
  \/ CountSlashes(filePath) < 2
  \/ StartsWith(filePath, <<"/", "/">>)

(* ------------------------------- Linker ------------------------------- *)
\* the title check testing for undefined only: "" passes
NoTitleUndefinedOnly(metadata) == metadata.title = None

\* !metadata.title
NoTitle(metadata) == metadata.title = None \/ metadata.title = Some(<<>>)

\* Reconfirm that forgets to delete the returned path
ReconfirmNothing(targetFiles, ret) == targetFiles

\* syncFiles after linkFile returned ret: a returned path that is in
\* targetFiles is deleted from it
Reconfirm(targetFiles, ret) ==
  IF ret # None /\ Contains(targetFiles, ret[1])
  THEN Without(targetFiles, ret[1])
  ELSE targetFiles

\* linkFile returned ret for entry i; the loop goes on
Returned(r, ret) ==
  Advance([r EXCEPT !.targetFiles = Reconfirm(@, ret), !.i = @ + 1,
                    !.lastRet = ret, !.rets = Append(@, ret)])

Entry(r) == r.sourceFiles[r.i]

TargetOf(r) == calculateTargetPath(Entry(r).metadata)

\* linkFile up to its first await: the title check, then mkdir
LinkFile(p) ==
  LET r == [pass[p] EXCEPT !.linkLog = Append(@, pass[p].i)]
      directory == TargetOf(r)[1]
  IN /\ Running /\ r.pc = "linkFile"
     /\ IF NoTitle(Entry(r).metadata)
        THEN /\ Commit(p, Returned(r, None))
             /\ UNCHANGED <<tdirs, faults>>
        ELSE \E f \in FaultChoices :
               /\ Inject(f)
               /\ IF f
                  THEN /\ Commit(p, Returned([r EXCEPT !.failed = TRUE], None))
                       /\ UNCHANGED tdirs
                  ELSE /\ Commit(p, [r EXCEPT !.pc = "stat"])
                       /\ tdirs' = IF directory = <<>> THEN tdirs
                                   ELSE tdirs \cup {directory}
     /\ UNCHANGED <<call, src, tfiles, phase, events, nevents, changes, runs>>

\* StatDecision that replaces every existing target
StatDecisionAlwaysReplace(exists, nlink) ==
  IF exists THEN "replace" ELSE "create"

\* StatDecision with the comparison off by one: nlink <= 2
StatDecisionOffByOne(exists, nlink) ==
  IF exists /\ nlink # 0 /\ nlink <= 2 THEN "replace"
  ELSE IF exists THEN "keep"
  ELSE "create"

\* what linkFile does with the stat of the target: "replace" a file of fewer
\* than two links, "keep" any other existing file, "create" when none exists
StatDecision(exists, nlink) ==
  IF exists /\ nlink # 0 /\ nlink < 2 THEN "replace"
  ELSE IF exists THEN "keep"
  ELSE "create"

\* linkFile: stat(target) and the branch taken on it
Stat(p) ==
  LET r == pass[p]
      directory == TargetOf(r)[1]
      fileName == TargetOf(r)[2]
      cur == Lookup(tfiles, directory, fileName)
      nlink == IF cur = {} THEN 0 ELSE NLink((CHOOSE f \in cur : TRUE).ino)
      decision == StatDecision(cur # {}, nlink)
  IN /\ Running /\ r.pc = "stat"
     /\ Commit(p,
          IF decision = "replace"
          THEN IF SafeUnlinkRefuses(AbsPath(directory, fileName))
               THEN Returned([r EXCEPT !.failed = TRUE], None)
               ELSE [r EXCEPT !.pc = "unlink"]
          ELSE IF decision = "keep"
          THEN Returned(r, Some(RelPath(directory, fileName)))
          ELSE [r EXCEPT !.pc = "link"])
     /\ UNCHANGED <<call, src, tdirs, tfiles, phase, events, nevents, changes,
                    faults, runs>>

\* Unlink that goes on to link() when the removal failed
UnlinkIgnoringFailure(p) ==
  LET r == pass[p]
      cur == Lookup(tfiles, TargetOf(r)[1], TargetOf(r)[2])
  IN /\ Running /\ r.pc = "unlink"
     /\ \E f \in FaultChoices :
          /\ Inject(f)
          /\ IF f \/ cur = {}
             THEN /\ Commit(p, [r EXCEPT !.pc = "link", !.failed = TRUE])
                  /\ UNCHANGED tfiles
             ELSE /\ Commit(p, [r EXCEPT !.pc = "link", !.removed = @ + 1])
                  /\ tfiles' = tfiles \ cur
     /\ UNCHANGED <<call, src, tdirs, phase, events, nevents, changes, runs>>

\* linkFile: safeUnlink's unlink of the stray target; an error is caught by
\* linkFile, which returns null
Unlink(p) ==
  LET r == pass[p]
      cur == Lookup(tfiles, TargetOf(r)[1], TargetOf(r)[2])
  IN /\ Running /\ r.pc = "unlink"
     /\ \E f \in FaultChoices :
          /\ Inject(f)
          /\ IF f \/ cur = {}
             THEN /\ Commit(p, Returned([r EXCEPT !.failed = TRUE], None))
                  /\ UNCHANGED tfiles
             ELSE /\ Commit(p, [r EXCEPT !.pc = "link", !.removed = @ + 1])
                  /\ tfiles' = tfiles \ cur
     /\ UNCHANGED <<call, src, tdirs, phase, events, nevents, changes, runs>>

\* Link that moves the source file (rename) instead of linking it
LinkByRename(p) ==
  LET r == pass[p]
      directory == TargetOf(r)[1]
      fileName == TargetOf(r)[2]
      cur == Lookup(tfiles, directory, fileName)
      ino == src[Entry(r).source].epub
  IN /\ Running /\ r.pc = "link"
     /\ \E f \in FaultChoices :
          /\ Inject(f)
          /\ IF f \/ cur # {} \/ ino = 0
             THEN /\ Commit(p, Returned([r EXCEPT !.failed = TRUE], None))
                  /\ UNCHANGED <<tfiles, src>>
             ELSE /\ Commit(p, Returned([r EXCEPT
                                          !.created = @ + 1,
                                          !.made = @ \cup
                                            {RelPath(directory, fileName)}],
                                        Some(RelPath(directory, fileName))))
                  /\ tfiles' = tfiles \cup {File(directory, fileName, ino)}
                  /\ src' = [src EXCEPT ![Entry(r).source].epub = 0]
     /\ UNCHANGED <<call, tdirs, phase, events, nevents, changes, runs>>

\* linkFile: link(source, target); an error is caught and null returned
Link(p) ==
  LET r == pass[p]
      directory == TargetOf(r)[1]
      fileName == TargetOf(r)[2]
      cur == Lookup(tfiles, directory, fileName)
      ino == src[Entry(r).source].epub
  IN /\ Running /\ r.pc = "link"
     /\ \E f \in FaultChoices :
          /\ Inject(f)
          /\ IF f \/ cur # {} \/ ino = 0
             THEN /\ Commit(p, Returned([r EXCEPT !.failed = TRUE], None))
                  /\ UNCHANGED tfiles
             ELSE /\ Commit(p, Returned([r EXCEPT
                                          !.created = @ + 1,
                                          !.made = @ \cup
                                            {RelPath(directory, fileName)}],
                                        Some(RelPath(directory, fileName))))
                  /\ tfiles' = tfiles \cup {File(directory, fileName, ino)}
     /\ UNCHANGED <<call, src, tdirs, phase, events, nevents, changes, runs>>

(* ------------------------------- Prune -------------------------------- *)
\* Prune that also removes a subdirectory left without files
PruneRemovingEmptyDir(p) ==
  LET r == pass[p]
      unusedFile == r.targetFiles[r.j]
      seriesName == SplitSlash(unusedFile)[1]
      fileName == SplitSlash(unusedFile)[2]
      cur == Lookup(tfiles, seriesName, fileName)
      r1 == [r EXCEPT !.j = @ + 1, !.pruneLog = Append(@, unusedFile)]
  IN /\ Running /\ r.pc = "prune"
     /\ IF SafeUnlinkRefuses(AbsPath(seriesName, fileName))
        THEN /\ Commit(p, Advance([r1 EXCEPT !.failed = TRUE,
                                              !.pruneErr = Append(@, unusedFile)]))
             /\ UNCHANGED <<tfiles, tdirs, faults>>
        ELSE \E f \in FaultChoices :
               /\ Inject(f)
               /\ IF f \/ cur = {}
                  THEN /\ Commit(p, Advance([r1 EXCEPT
                                               !.failed = TRUE,
                                               !.pruneErr = Append(@, unusedFile)]))
                       /\ UNCHANGED <<tfiles, tdirs>>
                  ELSE /\ Commit(p, Advance([r1 EXCEPT !.removed = @ + 1]))
                       /\ tfiles' = tfiles \ cur
                       /\ tdirs' = IF \E g \in tfiles \ cur : g.dir = seriesName
                                   THEN tdirs
                                   ELSE tdirs \ {seriesName}
     /\ UNCHANGED <<call, src, phase, events, nevents, changes, runs>>

\* syncFiles, second loop: one unused file; a refusal or an error is caught
Prune(p) ==
  LET r == pass[p]
      unusedFile == r.targetFiles[r.j]
      seriesName == SplitSlash(unusedFile)[1]
      fileName == SplitSlash(unusedFile)[2]
      cur == Lookup(tfiles, seriesName, fileName)
      r1 == [r EXCEPT !.j = @ + 1, !.pruneLog = Append(@, unusedFile)]
  IN /\ Running /\ r.pc = "prune"
     /\ IF SafeUnlinkRefuses(AbsPath(seriesName, fileName))
        THEN /\ Commit(p, Advance([r1 EXCEPT !.failed = TRUE,
                                              !.pruneErr = Append(@, unusedFile)]))
             /\ UNCHANGED <<tfiles, faults>>
        ELSE \E f \in FaultChoices :
               /\ Inject(f)
               /\ IF f \/ cur = {}
                  THEN /\ Commit(p, Advance([r1 EXCEPT
                                               !.failed = TRUE,
                                               !.pruneErr = Append(@, unusedFile)]))
                       /\ UNCHANGED tfiles
                  ELSE /\ Commit(p, Advance([r1 EXCEPT !.removed = @ + 1]))
                       /\ tfiles' = tfiles \ cur
     /\ UNCHANGED <<call, src, tdirs, phase, events, nevents, changes, runs>>

(* ---------------------- the source tree changes ----------------------- *)
Event(type, filename) == [type |-> type, filename |-> filename]

BookDirName(b) == <<"d", DigitChar(b)>>
EpubPath(b) == BookDirName(b) \o <<"/">> \o EpubFileName
OpfPath(b) == BookDirName(b) \o <<"/">> \o MetadataOpf

UsedInodes == {src[b].epub : b \in Books} \cup {f.ino : f \in tfiles}

\* the source tree becomes s and the watcher, once registered, queues evs
SourceChanged(s, evs) ==
  /\ changes < MaxChanges
  /\ phase = "watching" => nevents + Len(evs) <= MaxEvents
  /\ src' = s
  /\ changes' = changes + 1
  /\ pass' = [p \in Slots |->
                IF pass[p].pc # "idle" THEN [pass[p] EXCEPT !.dirty = TRUE]
                ELSE pass[p]]
  /\ stable' = FALSE
  /\ IF phase = "watching"
     THEN events' = events \o evs /\ nevents' = nevents + Len(evs)
     ELSE UNCHANGED <<events, nevents>>
  /\ UNCHANGED <<call, tdirs, tfiles, phase, faults, runs, lastOk>>

MkBookDir(b) ==
  /\ ~src[b].dir
  /\ SourceChanged([src EXCEPT ![b].dir = TRUE],
                   <<Event("rename", Some(BookDirName(b)))>>)

RmBookDir(b) ==
  /\ src[b].dir /\ src[b].epub = 0 /\ src[b].opf = "none"
  /\ SourceChanged([src EXCEPT ![b].dir = FALSE],
                   <<Event("rename", Some(BookDirName(b)))>>)

PutEpub(b) ==
  /\ src[b].dir /\ src[b].epub = 0
  /\ Inodes \ UsedInodes # {}
  /\ LET ino == CHOOSE i \in Inodes \ UsedInodes :
                  \A k \in Inodes \ UsedInodes : i <= k
     IN SourceChanged([src EXCEPT ![b].epub = ino],
                      <<Event("rename", Some(EpubPath(b)))>>)

DelEpub(b) ==
  /\ src[b].epub # 0
  /\ SourceChanged([src EXCEPT ![b].epub = 0],
                   <<Event("rename", Some(EpubPath(b)))>>)

WriteOpf(b, d) ==
  /\ src[b].dir /\ src[b].opf # d
  /\ SourceChanged([src EXCEPT ![b].opf = d],
                   <<Event(IF src[b].opf = "none" THEN "rename" ELSE "change",
                           Some(OpfPath(b)))>>)

DelOpf(b) ==
  /\ src[b].opf # "none"
  /\ SourceChanged([src EXCEPT ![b].opf = "none"],
                   <<Event("rename", Some(OpfPath(b)))>>)

SourceChange ==
  \E b \in Books :
    \/ MkBookDir(b)
    \/ RmBookDir(b)
    \/ PutEpub(b)
    \/ DelEpub(b)
    \/ \E d \in DocNames : WriteOpf(b, d)
    \/ DelOpf(b)

(* ------------------------- the watching program ----------------------- *)
\* the condition requiring "rename" for the sidecar too
WatchFilterRenameOnly(eventType, filename) ==
  /\ filename # None
  /\ eventType = "rename"
  /\ \/ EndsWith(filename[1], DotOpf)
     \/ EndsWith(filename[1], DotEpub)

\* the condition of the watch callback
WatchFilter(eventType, filename) ==
  /\ filename # None
  /\ \/ EndsWith(filename[1], DotOpf)
     \/ eventType = "rename" /\ EndsWith(filename[1], DotEpub)

\* notifications that come with no change of a book: a rewritten e-book, a
\* rewritten sidecar, an event without a file name
OtherEvents ==
  {Event("change", Some(EpubPath(1))), Event("change", Some(OpfPath(1))),
   Event("rename", None)}

\* the initial main() has returned: watch(inDir, ...) and process.on(...)
RegisterWatcher ==
  /\ phase = "initial" /\ pass[1].pc = "done"
  /\ phase' = "watching"
  /\ UNCHANGED <<call, src, tdirs, tfiles, pass, events, nevents, changes, faults,
                 runs, stable, lastOk>>

Notify ==
  /\ phase = "watching" /\ nevents < MaxEvents
  /\ \E ev \in OtherEvents :
       events' = Append(events, ev)
  /\ nevents' = nevents + 1
  /\ UNCHANGED <<call, src, tdirs, tfiles, pass, phase, changes, faults, runs,
                 stable, lastOk>>

FreeSlot == CHOOSE p \in Slots :
              ~InFlight(pass[p]) /\ \A q \in Slots : ~InFlight(pass[q]) => p <= q

\* the watch callback runs for the oldest notification
Deliver ==
  /\ phase = "watching" /\ events # <<>>
  /\ events' = Tail(events)
  /\ IF WatchFilter(Head(events).type, Head(events).filename)
     THEN /\ pass' = [pass EXCEPT ![FreeSlot] = BeginPass(FreeSlot)]
          /\ runs' = runs + 1
     ELSE UNCHANGED <<pass, runs>>
  /\ UNCHANGED <<call, src, tdirs, tfiles, phase, nevents, changes, faults, stable,
                 lastOk>>

\* SIGINT / SIGTERM: watcher.close(); process.exit(0)
Signal ==
  /\ phase = "watching"
  /\ phase' = "exited"
  /\ events' = <<>>
  /\ UNCHANGED <<call, src, tdirs, tfiles, pass, nevents, changes, faults, runs,
                 stable, lastOk>>

\* a test calls syncFiles() and awaits it before the next call
StartSync ==
  /\ phase = "tests" /\ runs < MaxSeqPasses
  /\ \A q \in Slots : ~InFlight(pass[q])
  /\ pass' = [pass EXCEPT ![1] = BeginPass(1)]
  /\ runs' = runs + 1
  /\ UNCHANGED <<call, src, tdirs, tfiles, phase, events, nevents, changes, faults,
                 stable, lastOk>>

PassStep(p) ==
  \/ ReadSourceRoot(p)
  \/ ScanBook(p)
  \/ ReadTargetRoot(p)
  \/ ScanDir(p)
  \/ LinkFile(p)
  \/ Stat(p)
  \/ Unlink(p)
  \/ Link(p)
  \/ Prune(p)

(* ---------------------------- initial states -------------------------- *)
NoBook == [dir |-> FALSE, epub |-> 0, opf |-> "none"]
EmptyBook == [dir |-> TRUE, epub |-> 0, opf |-> "none"]
FullBook(b, d) == [dir |-> TRUE, epub |-> b, opf |-> d]

BookStates(b) == {NoBook, EmptyBook} \cup {FullBook(b, d) : d \in DocNames}

\* the book folders the watching program is started on
WatchedBookStates(b) ==
  {IF b = 1 THEN EmptyBook ELSE NoBook, FullBook(b, "d1"), FullBook(b, "d2")}

PathOfDoc(d) == calculateTargetPath(parseOpf(Doc(d)))

OtherEpub == <<"o">> \o DotEpub

EmptyTarget == [dirs |-> {}, files |-> {}]

\* a single-link stray at the place of d1's mirror
StrayTarget ==
  LET p1 == PathOfDoc("d1")
  IN [dirs |-> {p1[1]}, files |-> {File(p1[1], p1[2], StrayIno)}]

\* two names of one inode that no source file has, one at the place of d2's
\* mirror
SharedInodeTarget ==
  LET p2 == PathOfDoc("d2")
  IN [dirs |-> {p2[1]},
      files |-> {File(p2[1], p2[2], StrayIno), File(p2[1], OtherEpub, StrayIno)}]

\* a file directly in the target root
RootFileTarget == [dirs |-> {}, files |-> {File(<<>>, OtherEpub, StrayIno)}]

\* a file in a subdirectory that is no e-book
OtherFileTarget ==
  LET p2 == PathOfDoc("d2")
  IN [dirs |-> {p2[1]},
      files |-> {File(p2[1], <<"n", ".", "t", "x", "t">>, StrayIno)}]

\* a file one level deeper, inside a directory whose name ends in .epub
NestedTarget ==
  LET p2 == PathOfDoc("d2")
  IN [dirs |-> {p2[1]},
      files |-> {File(p2[1] \o <<"/">> \o <<"u">> \o DotEpub, OtherEpub,
                      StrayIno)}]

TargetStates ==
  {EmptyTarget, StrayTarget, SharedInodeTarget, RootFileTarget,
   OtherFileTarget, NestedTarget}

WatchedTargetStates == {EmptyTarget, StrayTarget}

\* no library function has been called directly
NoCall ==
  [fn |-> "none",
   metadata |-> [title |-> None, creator |-> None, series |-> None,
                 seriesIndex |-> None],
   path |-> <<>>, target |-> <<>>, ok |-> FALSE, threw |-> FALSE]

\* states[b]: the states book folder b may start in
InitTrees(states, targets) ==
  /\ src \in [Books -> UNION {states[b] : b \in Books}]
  /\ \A b \in Books : src[b] \in states[b]
  /\ \E t \in targets : tdirs = t.dirs /\ tfiles = t.files
  /\ events = <<>> /\ nevents = 0 /\ changes = 0 /\ faults = 0
  /\ stable = FALSE /\ lastOk = FALSE
  /\ call = NoCall

\* the program of part_000: the initial main() is running
Init ==
  /\ InitTrees([b \in Books |-> WatchedBookStates(b)], WatchedTargetStates)
  /\ phase = "initial"
  /\ runs = 1
  /\ pass = [p \in Slots |->
               IF p = 1
               THEN [IdlePass EXCEPT !.pc = "readSource", !.t0 = tfiles,
                                     !.prem = IdempotencePremise]
               ELSE IdlePass]

Next ==
  \/ \E p \in Slots : PassStep(p)
  \/ SourceChange
  \/ RegisterWatcher
  \/ Notify
  \/ Deliver
  \/ Signal

Spec == Init /\ [][Next]_vars

\* the test suite: syncFiles() calls one after another
InitSeq ==
  /\ InitTrees([b \in Books |-> BookStates(b)], TargetStates)
  /\ phase = "tests"
  /\ runs = 0
  /\ pass = [p \in Slots |-> IdlePass]

NextSeq ==
  \/ StartSync
  \/ PassStep(1)
  \/ SourceChange

SpecSeq == InitSeq /\ [][NextSeq]_vars

(* ------------------- the unit tests: direct calls --------------------- *)
\* the metadata the tests hand to calculateTargetPath
TitleInputs ==
  {None, Some(<<>>), Some(<<"a">>), Some(<<"!">>),
   Some(<<"a", " ", "\t", "b", "!">>)}
CreatorInputs == {None, Some(<<"b">>), Some(<<"?">>)}
SeriesInputs == {None, Some(<<>>), Some(<<"s">>), Some(<<"!">>)}
SeriesIndexInputs ==
  {None, Some(Num(1, <<>>)), Some(Num(10, <<>>)), Some(Num(1, <<"5">>)),
   Some(NaN)}

MetadataInputs ==
  [title : TitleInputs, creator : CreatorInputs, series : SeriesInputs,
   seriesIndex : SeriesIndexInputs]

\* describe("calculateTargetPath"): the function is applied to metadata
CallCalculateTargetPath ==
  /\ phase = "unit"
  /\ \E metadata \in MetadataInputs :
       call' = [NoCall EXCEPT !.fn = "calculateTargetPath",
                              !.metadata = metadata,
                              !.target = calculateTargetPath(metadata)]
  /\ UNCHANGED <<src, tdirs, tfiles, pass, phase, events, nevents, changes,
                 faults, runs, stable, lastOk>>

\* `${outDir}/${name}`: a file directly in the target root
RootPath(fileName) == outDir \o <<"/">> \o fileName

\* the paths the tests hand to safeUnlink: "/o", "o", "//t/s/o", the files of
\* the target tree and a file that does not exist
PathInputs ==
  {<<"/", "o">>, <<"o">>, <<"/", "/", "t", "/", "s", "/", "o">>,
   AbsPath(<<"s">>, <<"g">> \o DotEpub)}
  \cup {AbsPath(f.dir, f.name) : f \in tfiles}
  \cup {RootPath(f.name) : f \in {g \in tfiles : g.dir = <<>>}}

\* the file of the target tree that filePath names, as a set of at most one
Resolve(filePath) ==
  {f \in tfiles :
     \/ AbsPath(f.dir, f.name) = filePath
     \/ f.dir = <<>> /\ RootPath(f.name) = filePath}

\* describe("safeUnlink"): the guard, then unlink, which throws when it fails
CallSafeUnlink ==
  /\ phase = "unit"
  /\ \E filePath \in PathInputs :
       LET c == [NoCall EXCEPT !.fn = "safeUnlink", !.path = filePath]
       IN IF SafeUnlinkRefuses(filePath)
          THEN /\ call' = c
               /\ UNCHANGED <<tfiles, faults>>
          ELSE \E f \in FaultChoices :
                 /\ Inject(f)
                 /\ IF f \/ Resolve(filePath) = {}
                    THEN /\ call' = [c EXCEPT !.threw = TRUE]
                         /\ UNCHANGED tfiles
                    ELSE /\ call' = [c EXCEPT !.ok = TRUE]
                         /\ tfiles' = tfiles \ Resolve(filePath)
  /\ UNCHANGED <<src, tdirs, pass, phase, events, nevents, changes, runs,
                 stable, lastOk>>

InitFn ==
  /\ InitTrees([b \in Books |-> {FullBook(b, "d1")}], TargetStates)
  /\ phase = "unit"
  /\ runs = 0
  /\ pass = [p \in Slots |-> IdlePass]

NextFn ==
  \/ CallCalculateTargetPath
  \/ CallSafeUnlink

SpecFn == InitFn /\ [][NextFn]_vars

(* ------------------------------ claims -------------------------------- *)
\* the pass of the sequential specification
SeqPass == pass[1]

EntryPath(e) == calculateTargetPath(e.metadata)

Titled(e) == ~NoTitle(e.metadata)

\* the entries readSourceFiles would return now
CurrentEntries == {ScanEntry(b)[1] : b \in {c \in Books : ScanEntry(c) # None}}

FileAt(t, path) == Lookup(t, path[1], path[2])

\* a pass that ended, with the source tree unchanged since it began
Undisturbed(r) == r.pc = "done" /\ ~r.dirty

\* C1 (as stated): a pass that follows a completed pass, with no change of the
\* source tree since that pass began, creates no link and removes no file
\* (read in the claim's favour: in behaviours where no operation fails).
C1_Idempotent ==
  (Undisturbed(SeqPass) /\ SeqPass.second /\ faults = 0)
    => (SeqPass.created = 0 /\ SeqPass.removed = 0)

\* C1 (amended): the same, when no operation of either pass failed and, when
\* the first pass began, every target file of two or more links was a link of
\* a source e-book file.
C1_IdempotentAmended ==
  (Undisturbed(SeqPass) /\ SeqPass.second /\ SeqPass.prevOk /\ ~SeqPass.failed)
    => (SeqPass.created = 0 /\ SeqPass.removed = 0)

C1_Witness ==
  /\ Undisturbed(SeqPass) /\ SeqPass.second /\ SeqPass.prevOk
  /\ ~SeqPass.failed
  /\ Len(SeqPass.linkLog) = 2
  /\ \E e \in CurrentEntries : Titled(e) /\ FileAt(tfiles, EntryPath(e)) # {}

\* the file lies directly inside a subdirectory of the target root
InSubdirectory(f) == f.dir # <<>> /\ ~Contains(f.dir, "/")

\* a file of the target tree that no entry of the pass maps to
Stale(r, f) ==
  \A k \in 1..Len(r.sourceFiles) :
    EntryPath(r.sourceFiles[k]) # <<f.dir, f.name>>

Wanted(f) == \E e \in CurrentEntries : EntryPath(e) = <<f.dir, f.name>>

WantedByTitled(f) ==
  \E e \in CurrentEntries : Titled(e) /\ EntryPath(e) = <<f.dir, f.name>>

\* C3 (as stated): no step removes a target file whose path is the Path
\* Policy path of a current source entry (read in the claim's favour: in
\* behaviours where no operation fails and the source tree does not change).
C3_WantedNeverRemoved ==
  [][\A f \in tfiles :
       (Wanted(f) /\ faults = 0 /\ changes = 0)
         => Lookup(tfiles', f.dir, f.name) # {}]_vars

\* C3 (amended): no step of a pass during which the source tree has not
\* changed and no operation has failed removes a target file of two or more
\* links whose path is the Path Policy path of a current source entry that
\* has a title.
C3_MirroredNeverRemoved ==
  [][\A f \in tfiles :
       (/\ WantedByTitled(f)
        /\ NLink(f.ino) >= 2
        /\ ~SeqPass.dirty /\ ~SeqPass.failed)
         => Lookup(tfiles', f.dir, f.name) # {}]_vars

C3_Witness ==
  /\ Undisturbed(SeqPass) /\ ~SeqPass.failed
  /\ SeqPass.removed > 0
  /\ \E f \in SeqPass.t0 : f \in tfiles /\ WantedByTitled(f) /\ NLink(f.ino) >= 2

\* the titled entries of the pass have pairwise distinct Path Policy paths
DistinctPaths(r) ==
  \A k, m \in 1..Len(r.sourceFiles) :
    (/\ k # m
     /\ Titled(r.sourceFiles[k]) /\ Titled(r.sourceFiles[m]))
      => EntryPath(r.sourceFiles[k]) # EntryPath(r.sourceFiles[m])

\* C4: after a pass that began on an empty target tree and in which nothing
\* failed, every titled source entry (their paths pairwise distinct) has at
\* its Path Policy path a file with the inode of its source e-book.
C4_Mirrored ==
  (/\ Undisturbed(SeqPass) /\ ~SeqPass.failed
   /\ SeqPass.t0 = {}
   /\ DistinctPaths(SeqPass))
    => \A k \in 1..Len(SeqPass.sourceFiles) :
         LET e == SeqPass.sourceFiles[k]
         IN Titled(e)
              => /\ src[e.source].epub # 0
                 /\ FileAt(tfiles, EntryPath(e))
                      = {File(EntryPath(e)[1], EntryPath(e)[2],
                              src[e.source].epub)}

C4_Witness ==
  /\ Undisturbed(SeqPass) /\ ~SeqPass.failed
  /\ SeqPass.t0 = {}
  /\ DistinctPaths(SeqPass)
  /\ Len(SeqPass.sourceFiles) = 2
  /\ SeqPass.created = 2

\* C5: at most one invocation of main/syncFiles is in flight.
C5_SingleFlight == Cardinality({p \in Slots : InFlight(pass[p])}) <= 1


\* the link count of every present source e-book file does not shrink
LinkCountsGrow ==
  \A b \in Books :
    src[b].epub # 0
      => NLinkIn(src', tfiles', src[b].epub) >= NLink(src[b].epub)

\* C6 (as stated): a step of a pass leaves the source tree as it is, and the
\* link count of a source file only grows.
C6_SourceUntouched ==
  [][(\E p \in Slots : PassStep(p)) => (src' = src /\ LinkCountsGrow)]_vars

\* C6 (amended): a step of a pass leaves the source tree as it is; the link
\* count of a source file grows by one when link() makes a mirror of it and
\* shrinks by one when a pass removes a target file that is a link of it.
C6_SourceEntriesUntouched ==
  [][\A p \in Slots :
       PassStep(p) =>
         /\ src' = src
         /\ \A b \in Books :
              src[b].epub # 0 =>
                LET before == NLink(src[b].epub)
                    after == NLinkIn(src', tfiles', src[b].epub)
                IN /\ after > before
                        => (after = before + 1 /\ pass[p].pc = "link")
                   /\ after < before
                        => (after = before - 1
                            /\ pass[p].pc \in {"unlink", "prune"})]_vars

C6_Witness ==
  \E p \in Slots, b \in Books :
    /\ pass[p].pc = "done"
    /\ pass[p].created > 0 /\ pass[p].removed > 0
    /\ src[b].epub # 0 /\ NLink(src[b].epub) >= 2

\* two titled entries of the pass, k before m, with the same Path Policy path
Collide(r, k, m) ==
  /\ k < m
  /\ Titled(r.sourceFiles[k]) /\ Titled(r.sourceFiles[m])
  /\ EntryPath(r.sourceFiles[k]) = EntryPath(r.sourceFiles[m])

MirrorOf(e) ==
  {File(EntryPath(e)[1], EntryPath(e)[2], src[e.source].epub)}

\* C7 (as stated): when two entries of a pass map to one target path, the
\* target file is afterwards a link of the later entry's source file (read in
\* the claim's favour: in behaviours where no operation fails).
C7_LastWriterWins ==
  (Undisturbed(SeqPass) /\ faults = 0)
    => \A k, m \in 1..Len(SeqPass.sourceFiles) :
         Collide(SeqPass, k, m)
           => FileAt(tfiles, EntryPath(SeqPass.sourceFiles[m]))
                = MirrorOf(SeqPass.sourceFiles[m])

\* the path held a file of two or more links when the pass began
HeldAtStart(r, path) ==
  \E f \in FileAt(r.t0, path) : NLinkIn(src, r.t0, f.ino) >= 2

\* C7 (amended): when two entries of a pass map to one target path, no
\* operation of the pass fails and the path held no file of two or more links
\* when the pass began, the target file is afterwards a link of the earlier
\* entry's source file: the later entry finds two links and leaves it.
C7_FirstWriterWins ==
  (Undisturbed(SeqPass) /\ ~SeqPass.failed)
    => \A k, m \in 1..Len(SeqPass.sourceFiles) :
         (/\ Collide(SeqPass, k, m)
          /\ \A n \in 1..(k - 1) : ~Collide(SeqPass, n, k)
          /\ ~HeldAtStart(SeqPass, EntryPath(SeqPass.sourceFiles[k])))
           => FileAt(tfiles, EntryPath(SeqPass.sourceFiles[k]))
                = MirrorOf(SeqPass.sourceFiles[k])

C7_Witness ==
  /\ Undisturbed(SeqPass) /\ ~SeqPass.failed
  /\ Len(SeqPass.sourceFiles) = 2
  /\ Collide(SeqPass, 1, 2)
  /\ ~HeldAtStart(SeqPass, EntryPath(SeqPass.sourceFiles[1]))
  /\ SeqPass.created = 1
  /\ FileAt(tfiles, EntryPath(SeqPass.sourceFiles[1]))
       = MirrorOf(SeqPass.sourceFiles[1])

\* C8: when the process has ended on the stop signal, no pass is left cut off
\* mid-way: every pass that had begun ran to its end.
C8_GracefulStop ==
  phase = "exited" => \A p \in Slots : ~InFlight(pass[p])

\* C9: a pass whose scans succeeded calls the Linker once for every source
\* entry, in order, and attempts once the removal of every path left in
\* targetFiles, whatever failed on the way, and ends.
C9_ErrorIsolation ==
  LET r == SeqPass
  IN /\ (r.pc \in {"linkFile", "stat", "unlink", "link"})
          => /\ r.linkLog = [k \in 1..Len(r.linkLog) |-> k]
             /\ Len(r.linkLog) \in {r.i - 1, r.i}
             /\ r.pruneLog = <<>>
     /\ (r.pc \in {"prune", "done"} /\ ~r.scanFailed)
          => /\ r.linkLog = [k \in 1..Len(r.sourceFiles) |-> k]
             /\ r.pruneLog = SubSeq(r.targetFiles, 1, r.j - 1)
             /\ \A k, m \in 1..Len(r.targetFiles) :
                  k # m => r.targetFiles[k] # r.targetFiles[m]
     /\ (r.pc = "done" /\ ~r.scanFailed) => r.pruneLog = r.targetFiles

C9_Witness ==
  /\ SeqPass.pc = "done" /\ ~SeqPass.scanFailed
  /\ SeqPass.failed
  /\ SeqPass.lastRet # None
  /\ Len(SeqPass.linkLog) = 2
  /\ Len(SeqPass.pruneLog) >= 1

\* C10: when linkFile finds its target with two or more links, the target
\* tree is left as it is (no unlink, no link) and linkFile returns
\* `directory/file`.
C10_KeepMirrored ==
  [][\A p \in Slots :
       LET r == pass[p]
           path == TargetOf(r)
       IN (/\ r.pc = "stat"
           /\ Stat(p)
           /\ \E f \in FileAt(tfiles, path) : NLink(f.ino) >= 2)
            => /\ tfiles' = tfiles
               /\ pass'[p].lastRet = Some(RelPath(path[1], path[2]))
               /\ pass'[p].i = r.i + 1
               /\ pass'[p].created = r.created
               /\ pass'[p].removed = r.removed]_vars

C10_Witness ==
  /\ SeqPass.pc \in {"linkFile", "prune", "done"}
  /\ SeqPass.i > 1
  /\ SeqPass.lastRet # None
  /\ SeqPass.created = 0 /\ SeqPass.removed = 0
  /\ \E f \in FileAt(tfiles, EntryPath(SeqPass.sourceFiles[SeqPass.i - 1])) :
       NLink(f.ino) >= 2

\* C11: linkFile on a target of fewer than two links: the file is removed
\* through safeUnlink before link() is called, and a link() that succeeds
\* leaves at the target a file with the source's inode; when the removal
\* fails (safeUnlink refuses, or unlink throws) the target tree is left as it
\* is, no link() follows and linkFile returns null.
C11_ReplaceStray ==
  [][LET r == pass[1]
     IN /\ (/\ r.pc = "stat"
            /\ Stat(1)
            /\ \E f \in FileAt(tfiles, TargetOf(r)) : NLink(f.ino) < 2)
             => /\ tfiles' = tfiles
                /\ IF SafeUnlinkRefuses(AbsPath(TargetOf(r)[1], TargetOf(r)[2]))
                   THEN /\ pass'[1].rets = Append(r.rets, None)
                        /\ pass'[1].i = r.i + 1
                   ELSE pass'[1].pc = "unlink" /\ pass'[1].i = r.i
        /\ (r.pc = "unlink" /\ Unlink(1))
             => \/ /\ FileAt(tfiles, TargetOf(r)) # {}
                   /\ tfiles' = tfiles \ FileAt(tfiles, TargetOf(r))
                   /\ pass'[1].pc = "link" /\ pass'[1].i = r.i
                \/ /\ tfiles' = tfiles
                   /\ pass'[1].rets = Append(r.rets, None)
                   /\ pass'[1].i = r.i + 1
        /\ (r.pc = "link" /\ Link(1) /\ tfiles' # tfiles)
             => /\ FileAt(tfiles', TargetOf(r)) = MirrorOf(Entry(r))
                /\ pass'[1].rets
                     = Append(r.rets,
                              Some(RelPath(TargetOf(r)[1], TargetOf(r)[2])))]_vars

C11_Witness ==
  /\ SeqPass.pc = "done" /\ ~SeqPass.failed /\ ~SeqPass.dirty
  /\ SeqPass.removed = 1 /\ SeqPass.created = 1
  /\ \E k \in 1..Len(SeqPass.sourceFiles) :
       LET e == SeqPass.sourceFiles[k]
       IN /\ \E f \in FileAt(SeqPass.t0, EntryPath(e)) :
               NLinkIn(src, SeqPass.t0, f.ino) < 2
          /\ FileAt(tfiles, EntryPath(e)) = MirrorOf(e)
          /\ SeqPass.rets[k] = Some(RelPath(EntryPath(e)[1], EntryPath(e)[2]))

\* C12: linkFile on metadata whose title is absent or empty returns null and
\* changes nothing in the file system: no directory is created, no file is
\* removed or linked, also when series and seriesIndex are present.
C12_SkipUntitled ==
  [][\A p \in Slots :
       LET r == pass[p]
       IN (/\ r.pc = "linkFile"
           /\ LinkFile(p)
           /\ Entry(r).metadata.title \in {None, Some(<<>>)})
            => /\ tdirs' = tdirs /\ tfiles' = tfiles /\ src' = src
               /\ pass'[p].rets = Append(r.rets, None)
               /\ pass'[p].i = r.i + 1
               /\ pass'[p].created = r.created
               /\ pass'[p].removed = r.removed
               /\ pass'[p].pc \in {"linkFile", "prune", "done"}]_vars

C12_Witness ==
  /\ SeqPass.pc = "done" /\ ~SeqPass.failed /\ ~SeqPass.dirty
  /\ Len(SeqPass.sourceFiles) = 2
  /\ SeqPass.sourceFiles[1].metadata.title = Some(<<>>)
  /\ SeqPass.sourceFiles[1].metadata.series # None
  /\ SeqPass.sourceFiles[1].metadata.seriesIndex # None
  /\ SeqPass.sourceFiles[2].metadata.title = None
  /\ SeqPass.rets = <<None, None>>
  /\ SeqPass.t0 = {} /\ tfiles = {} /\ tdirs = {}

\* C13: safeUnlink returns false, without throwing and without touching a
\* file, for every path with fewer than two "/" or beginning with "//"; for
\* an existing file whose path has two or more "/" and does not begin with
\* "//" it deletes the file and returns true (unlink itself not failing).
C13_SafeUnlinkGuard ==
  [][CallSafeUnlink =>
       LET filePath == call'.path
           slashes == Len(SelectSeq(filePath, LAMBDA c : c = "/"))
           doubled == /\ Len(filePath) >= 2
                      /\ filePath[1] = "/" /\ filePath[2] = "/"
       IN /\ (slashes < 2 \/ doubled)
               => /\ ~call'.ok /\ ~call'.threw
                  /\ tfiles' = tfiles /\ tdirs' = tdirs /\ src' = src
          /\ (/\ slashes >= 2 /\ ~doubled
              /\ Resolve(filePath) # {}
              /\ faults' = faults)
               => /\ call'.ok /\ ~call'.threw
                  /\ tfiles' = tfiles \ Resolve(filePath)
                  /\ tdirs' = tdirs /\ src' = src]_vars

C13_Witness ==
  /\ call.fn = "safeUnlink"
  /\ call.path = RootPath(OtherEpub)
  /\ CountSlashes(call.path) = 2
  /\ call.ok /\ ~call.threw
  /\ tfiles = {} /\ faults = 0

\* sanitize(x), or the fallback where the claim substitutes it: for an absent
\* (or empty) x and, when alsoStripped, for an x whose sanitized form is empty
Component(x, fallback, alsoStripped) ==
  IF x = None \/ x = Some(<<>>) THEN fallback
  ELSE IF alsoStripped /\ Sanitize(x[1]) = <<>> THEN fallback
  ELSE Sanitize(x[1])

\* the index left-padded with zeros to at least two characters
IndexLabel(n) ==
  LET str == NumberToString(n)
  IN IF Len(str) >= 2 THEN str ELSE <<"0">> \o str

\* the path the claim gives for metadata m
Routed(m, alsoStripped) ==
  IF m.series = None \/ m.series = Some(<<>>) \/ m.seriesIndex = None
  THEN LET S == Component(m.title, UnknownTitle, alsoStripped) \o Dash
                  \o Component(m.creator, UnknownCreator, alsoStripped)
       IN <<S, S \o DotEpub>>
  ELSE <<Sanitize(m.series[1]),
         Sanitize(m.series[1]) \o Dash \o IndexLabel(m.seriesIndex[1])
           \o DotEpub>>

\* C14 (as stated): calculateTargetPath returns (S, S.epub) with
\* S = sanitize(title) - sanitize(creator), "Unknown Title"/"Unknown Creator"
\* standing in for an absent title/creator, when series is absent or empty
\* or seriesIndex is absent, and (sanitize(series), sanitize(series) - index
\* .epub) otherwise, index padded to two characters.
C14_Routing ==
  call.fn = "calculateTargetPath"
    => call.target = Routed(call.metadata, FALSE)

\* C14 (amended): the same, with "Unknown Title"/"Unknown Creator" standing in
\* also for a title/creator whose sanitized form is empty; index 1 gives
\* "01" and index 10 gives "10".
C14_RoutingAmended ==
  call.fn = "calculateTargetPath"
    => /\ Len(call.target) = 2
       /\ call.target = Routed(call.metadata, TRUE)
       /\ (/\ call.metadata.series = Some(<<"s">>)
           /\ call.metadata.seriesIndex = Some(Num(1, <<>>)))
            => call.target
                 = <<(<<"s">>), <<"s", " ", "-", " ", "0", "1">> \o DotEpub>>
       /\ (/\ call.metadata.series = Some(<<"s">>)
           /\ call.metadata.seriesIndex = Some(Num(10, <<>>)))
            => call.target
                 = <<(<<"s">>), <<"s", " ", "-", " ", "1", "0">> \o DotEpub>>

C14_Witness ==
  /\ call.fn = "calculateTargetPath"
  /\ call.metadata.title = Some(<<"!">>)
  /\ call.metadata.creator = Some(<<"b">>)
  /\ call.metadata.series = Some(<<>>)
  /\ call.metadata.seriesIndex = Some(Num(1, <<>>))
  /\ call.target[1] = UnknownTitle \o Dash \o <<"b">>
  /\ call.target[2] = call.target[1] \o DotEpub

\* the .epub files in the subdirectories of the target root, as paths
TargetEpubs ==
  {<<f.dir, f.name>> :
     f \in {g \in tfiles : InSubdirectory(g) /\ EndsWith(g.name, DotEpub)}}

\* the Path Policy paths of the current source entries that have a title
WantedPaths == {EntryPath(e) : e \in {x \in CurrentEntries : Titled(x)}}

\* every pass has ended, no notification is waiting, no operation failed, and
\* a pass that began after the last change of the source tree has completed
Quiescent ==
  /\ events = <<>> /\ faults = 0
  /\ \A p \in Slots : ~InFlight(pass[p])
  /\ \E p \in Slots : pass[p].pc = "done" /\ ~pass[p].dirty

\* C15: once the source tree has stopped changing and every pass has
\* completed, with no operation failed, the .epub files in the target
\* subdirectories are exactly the Path Policy paths of the current titled
\* source entries (read in the claim's favour: for entries whose paths name
\* a subdirectory).
C15_Convergence ==
  (Quiescent /\ \A path \in WantedPaths : path[1] # <<>>)
    => TargetEpubs = WantedPaths

\* C16: in every pass both scans are complete before the first Linker call,
\* every Linker call has returned before the first removal attempt of the
\* prune phase, and the prune phase never attempts the removal of a path the
\* pass linked itself that was not in its target scan.
C16_PhaseOrder ==
  \A p \in Slots :
    LET r == pass[p]
    IN /\ r.pc \in {"readSource", "scanBook", "readTarget", "scanDir"}
            => /\ r.linkLog = <<>> /\ r.pruneLog = <<>>
               /\ r.made = {} /\ r.created = 0 /\ r.removed = 0
       /\ r.linkLog # <<>> => r.todo = <<>> /\ r.dtodo = <<>>
       /\ r.pc \in {"linkFile", "stat", "unlink", "link"}
            => r.pruneLog = <<>> /\ Len(r.rets) = r.i - 1
       /\ r.pruneLog # <<>>
            => /\ r.pc \in {"prune", "done"}
               /\ Len(r.linkLog) = Len(r.sourceFiles)
               /\ Len(r.rets) = Len(r.sourceFiles)
       /\ \A path \in r.made :
            ~Contains(r.scanned, path) => ~Contains(r.pruneLog, path)

C16_Witness ==
  \E p \in Slots :
    LET r == pass[p]
    IN /\ r.pc = "done" /\ ~r.scanFailed
       /\ Len(r.sourceFiles) >= 1
       /\ r.pruneLog # <<>> /\ r.removed >= 1
       /\ \E path \in r.made :
            /\ ~Contains(r.scanned, path)
            /\ \E f \in tfiles : RelPath(f.dir, f.name) = path

\* the notifications the claim lets start a pass
Triggering(ev) ==
  /\ ev.filename # None
  /\ \/ EndsWith(ev.filename[1], <<".", "o", "p", "f">>)
     \/ /\ ev.type = "rename"
        /\ EndsWith(ev.filename[1], <<".", "e", "p", "u", "b">>)

\* C17: the watcher is registered only when the initial pass has ended and no
\* other pass has begun; afterwards a pass begins only on the delivery of a
\* notification, every notification whose file name ends in ".opf" and every
\* "rename" notification whose file name ends in ".epub" begins exactly one
\* pass, also while other passes are in flight, and any other notification
\* begins none.
C17_TriggerRule ==
  [][/\ (phase = "initial" /\ phase' = "watching")
          => pass[1].pc = "done" /\ runs = 1
     /\ phase = "initial" => runs' = runs
     /\ runs' # runs
          => /\ phase = "watching" /\ events # <<>>
             /\ events' = Tail(events)
             /\ Triggering(Head(events))
     /\ (/\ phase = "watching" /\ phase' = "watching"
         /\ events # <<>> /\ events' = Tail(events))
          => IF Triggering(Head(events))
             THEN /\ runs' = runs + 1
                  /\ \E p \in Slots :
                       /\ ~InFlight(pass[p])
                       /\ pass'[p].pc = "readSource"
                       /\ \A q \in Slots \ {p} : pass'[q] = pass[q]
             ELSE runs' = runs /\ pass' = pass]_vars

C17_Witness ==
  /\ phase = "watching"
  /\ nevents = 2 /\ events = <<>>
  /\ runs = 3
  /\ Cardinality({p \in Slots : InFlight(pass[p])}) = 2

\* the members of a sequence
Members(seq) == {seq[k] : k \in 1..Len(seq)}

\* the relative paths the Linker calls of the pass returned
ReturnedPaths(r) ==
  {r.rets[k][1] : k \in {m \in 1..Len(r.rets) : r.rets[m] # None}}

\* the pass pruned the scanned paths no Linker call returned, each once
PrunedExactly(r) ==
  /\ Members(r.pruneLog) = Members(r.scanned) \ ReturnedPaths(r)
  /\ Len(r.pruneLog) = Cardinality(Members(r.pruneLog))

\* the files of the scan that are links of book b's e-book file
MirrorsOf(r, b) ==
  {f \in r.t0 : /\ src[b].epub # 0 /\ f.ino = src[b].epub
                /\ Contains(r.scanned, RelPath(f.dir, f.name))}

\* book b has no entry in the pass, or the Linker call of its entry gave null
Unlinked(r, b) ==
  \A k \in 1..Len(r.sourceFiles) :
    r.sourceFiles[k].source = b => (k <= Len(r.rets) /\ r.rets[k] = None)

\* C18 (as stated): a pass that completes its scans attempts the removal of
\* exactly the scanned paths that no Linker call returned; and the scanned
\* mirror of a book that has no entry in the pass, or whose Linker call gave
\* null, is among them.
C18_ExactPruneSet ==
  (Undisturbed(SeqPass) /\ ~SeqPass.scanFailed)
    => /\ PrunedExactly(SeqPass)
       /\ \A b \in Books : \A f \in MirrorsOf(SeqPass, b) :
            Unlinked(SeqPass, b)
              => Contains(SeqPass.pruneLog, RelPath(f.dir, f.name))

\* C18 (amended): the same, the mirror being removed when no Linker call of
\* the pass returned its path, and being gone at the end of the pass unless
\* its removal failed.
C18_ExactPruneSetAmended ==
  (Undisturbed(SeqPass) /\ ~SeqPass.scanFailed)
    => /\ PrunedExactly(SeqPass)
       /\ \A b \in Books : \A f \in MirrorsOf(SeqPass, b) :
            (/\ Unlinked(SeqPass, b)
             /\ RelPath(f.dir, f.name) \notin ReturnedPaths(SeqPass))
              => /\ Contains(SeqPass.pruneLog, RelPath(f.dir, f.name))
                 /\ \/ Contains(SeqPass.pruneErr, RelPath(f.dir, f.name))
                    \/ Lookup(tfiles, f.dir, f.name) = {}

\* a mirrored book whose sidecar no longer parses loses its mirror, while the
\* other book's mirror is returned and kept
C18_Witness ==
  /\ Undisturbed(SeqPass) /\ ~SeqPass.scanFailed
  /\ Len(SeqPass.scanned) = 2
  /\ Cardinality(ReturnedPaths(SeqPass)) = 1
  /\ \E b \in Books : \E f \in MirrorsOf(SeqPass, b) :
       /\ src[b].opf = "bad"
       /\ Contains(SeqPass.pruneLog, RelPath(f.dir, f.name))
       /\ Lookup(tfiles, f.dir, f.name) = {}

\* the pass has touched nothing of the target tree
NothingDone(r) ==
  /\ r.linkLog = <<>> /\ r.pruneLog = <<>> /\ r.rets = <<>>
  /\ r.made = {} /\ r.created = 0 /\ r.removed = 0

\* C19: a pass whose source scan meets a folder that is gone, or whose target
\* scan meets a readdir that throws, ends at that step, having made no
\* Linker call (hence no directory and no link) and no removal; the step
\* leaves the target tree and the state of the process as they were, so a
\* registered watcher stays registered.
C19_ScanFailureAborts ==
  /\ [](\A p \in Slots :
          pass[p].scanFailed => pass[p].pc = "done" /\ NothingDone(pass[p]))
  /\ [][\A p \in Slots :
          (\/ /\ pass[p].pc = "scanBook"
              /\ pass'[p].todo # pass[p].todo
              /\ ~src[Head(pass[p].todo)].dir
           \/ /\ pass[p].pc = "scanDir"
              /\ pass'[p] # pass[p]
              /\ faults' # faults)
            => /\ pass'[p].pc = "done" /\ NothingDone(pass'[p])
               /\ pass'[p].scanFailed
               /\ tdirs' = tdirs /\ tfiles' = tfiles /\ src' = src
               /\ phase' = phase /\ events' = events]_vars

\* the initial pass failed in a scan, the watcher is registered all the same
\* and a notification that starts a pass awaits delivery
C19_Witness ==
  /\ phase = "watching" /\ runs = 1
  /\ pass[1].scanFailed /\ pass[1].pc = "done"
  /\ tfiles = pass[1].t0
  /\ events # <<>> /\ Triggering(Head(events))

\* C20: every file a step adds to the target tree lies in a subdirectory of
\* the target root whose name is not empty, and its relative path is one the
\* Target Scanner would enumerate in the state the step leaves.
C20_ProducedLayout ==
  [][\A f \in tfiles' \ tfiles :
       /\ f.dir # <<>>
       /\ f.dir \in tdirs'
       /\ \E d \in tdirs' :
            \E k \in 1..Len(SeqOf({g.name : g \in {h \in tfiles' : h.dir = d}})) :
              RelPath(d, SeqOf({g.name : g \in {h \in tfiles' : h.dir = d}})[k])
                = RelPath(f.dir, f.name)]_vars

\* C21: no step takes away a file that lies directly in the target root, nor
\* puts another file in its place.
C21_RootFilesUntouched ==
  [][\A f \in tfiles : f.dir = <<>> => f \in tfiles']_vars

\* C22: for metadata whose seriesIndex is the not-a-number value,
\* calculateTargetPath returns the path it returns for the same metadata
\* without seriesIndex: the title/creator name.
C22_NaNAsAbsent ==
  (/\ call.fn = "calculateTargetPath"
   /\ call.metadata.seriesIndex # None
   /\ call.metadata.seriesIndex[1].nan)
    => call.target = Routed([call.metadata EXCEPT !.seriesIndex = None], TRUE)

\* book folder b holds an e-book file and a metadata.opf that parses
Qualifies(b) ==
  /\ src[b].dir
  /\ src[b].epub # 0
  /\ src[b].opf # "none"
  /\ Doc(src[b].opf).valid

\* C23: when readSourceFiles has returned, the source tree being as it was
\* when the pass began, its result holds one entry for every book folder
\* with an e-book file and a metadata.opf that parses, carrying what parseOpf
\* gives for that sidecar, and no other entry; a folder whose sidecar does
\* not parse is left out and the folders after it are still read.
C23_SourceScan ==
  \A p \in Slots :
    LET r == pass[p]
    IN (/\ r.pc \notin {"idle", "readSource", "scanBook"}
        /\ ~r.scanFailed /\ ~r.dirty)
         => /\ \A b \in Books :
                 Qualifies(b)
                   <=> \E k \in 1..Len(r.sourceFiles) :
                         r.sourceFiles[k].source = b
            /\ \A k, m \in 1..Len(r.sourceFiles) :
                 r.sourceFiles[k].source = r.sourceFiles[m].source => k = m
            /\ \A k \in 1..Len(r.sourceFiles) :
                 LET e == r.sourceFiles[k]
                 IN /\ e.metadata.ok
                    /\ e.metadata.title = Doc(src[e.source].opf).title
                    /\ e.metadata.creator = Doc(src[e.source].opf).creator

\* the first folder's sidecar does not parse, the second folder's entry is
\* returned
C23_Witness ==
  /\ SeqPass.pc = "done" /\ ~SeqPass.scanFailed /\ ~SeqPass.dirty
  /\ src[1].dir /\ src[1].epub # 0 /\ src[1].opf = "bad"
  /\ Len(SeqPass.sourceFiles) = 1
  /\ SeqPass.sourceFiles[1].source = 2
  /\ Qualifies(2)

\* the relative paths of the .epub files of t that lie directly inside a
\* subdirectory of the target root
EpubPathsBelow(t) ==
  {RelPath(f.dir, f.name) :
     f \in {g \in t : /\ g.dir # <<>>
                      /\ \A i \in 1..Len(g.dir) : g.dir[i] # "/"
                      /\ EndsWith(g.name, <<".", "e", "p", "u", "b">>)}}

\* C24: when getFilesInTargetDir has returned, its result holds, each once,
\* the relative paths subdirectory/filename of the files ending in .epub
\* that lay directly inside a subdirectory of the target root when the pass
\* began: no file of the target root itself, no file of another extension,
\* no directory, no file that lies deeper, and nothing for a target root
\* without such files.
C24_TargetScan ==
  LET r == SeqPass
  IN (/\ r.pc \in {"linkFile", "stat", "unlink", "link", "prune", "done"}
      /\ ~r.scanFailed)
       => /\ Members(r.scanned) = EpubPathsBelow(r.t0)
          /\ Len(r.scanned) = Cardinality(EpubPathsBelow(r.t0))
          /\ r.t0 = {} => r.scanned = <<>>
          /\ \A f \in r.t0 :
               (\/ f.dir = <<>>
                \/ \E i \in 1..Len(f.dir) : f.dir[i] = "/"
                \/ ~EndsWith(f.name, <<".", "e", "p", "u", "b">>))
                 => /\ ~Contains(r.scanned, RelPath(f.dir, f.name))
                    /\ ~Contains(r.scanned, f.dir)
                    /\ ~Contains(r.scanned, f.name)

\* a subdirectory holds a mirror and a directory named like an e-book with
\* a file inside: the scan returns the mirror only
C24_Witness ==
  /\ SeqPass.pc = "done" /\ ~SeqPass.scanFailed
  /\ Len(SeqPass.scanned) = 1
  /\ \E f \in SeqPass.t0 : \E g \in SeqPass.t0 :
       /\ SeqPass.scanned[1] = RelPath(f.dir, f.name)
       /\ Len(g.dir) > Len(f.dir) + 1
       /\ SubSeq(g.dir, 1, Len(f.dir) + 1) = f.dir \o <<"/">>
       /\ EndsWith(g.dir, <<".", "e", "p", "u", "b">>)

\* C25: no step takes a subdirectory away from the target root: the set of
\* subdirectories only grows, and the subdirectory of a file that a step
\* removes is still there after the step.
C25_DirectoriesKept ==
  [][/\ tdirs \subseteq tdirs'
     /\ \A f \in tfiles \ tfiles' : f.dir # <<>> => f.dir \in tdirs']_vars

\* the prune phase has removed the only file of a subdirectory, which is
\* still there, empty
C25_Witness ==
  /\ SeqPass.pc = "done"
  /\ \E f \in SeqPass.t0 :
       /\ f.dir \in tdirs
       /\ \A g \in tfiles : g.dir # f.dir
       /\ Contains(SeqPass.pruneLog, RelPath(f.dir, f.name))
       /\ ~Contains(SeqPass.pruneErr, RelPath(f.dir, f.name))

====
